---- MODULE Spec2Model ----
(***************************************************************************)
(* SpiralVase::process_layer (src/libslic3r/GCode/SpiralVase.cpp) as a     *)
(* state machine.  One SpiralVase instance is driven by enable() and       *)
(* process_layer() calls; every call runs the measuring pass and the       *)
(* rewriting pass over one layer of G-code lines.                          *)
(*                                                                         *)
(* float values are fixed-point integers with Scale units per 1.0 (the     *)
(* three decimals GCodeLine::set writes into the text), every operation    *)
(* rounding to the nearest unit; the IEEE-754 results of a division by     *)
(* zero are kept as the values PInf, NInf and NaN.                         *)
(***************************************************************************)
EXTENDS Integers, Sequences, FiniteSets, TLC

VARIABLES
    m_enabled,                \* SpiralVase::m_enabled
    m_transition_layer,       \* SpiralVase::m_transition_layer
    m_smooth_spiral,          \* SpiralVase::m_smooth_spiral
    use_relative_e_distances, \* m_config.use_relative_e_distances
    m_previous_layer,         \* SpiralVase::m_previous_layer: NULL or a vector
    m_reader,                 \* SpiralVase::m_reader: the tracked position
    call                      \* the process_layer call that has not returned to
                              \* its caller yet: arguments, locals and result

vars == <<m_enabled, m_transition_layer, m_smooth_spiral, use_relative_e_distances,
          m_previous_layer, m_reader, call>>

(***************************************************************************)
(* float arithmetic                                                        *)
(***************************************************************************)
Scale == 1000
PInf == 1000000000
NInf == -1000000000
NaN == 2000000000
FLT_MAX == 999999999

IsNaN(a) == a = NaN
IsInf(a) == a = PInf \/ a = NInf
IsFinite(a) == a > NInf /\ a < PInf

Sgn(a) == IF a > 0 THEN 1 ELSE IF a < 0 THEN -1 ELSE 0
Abs(a) == IF a < 0 THEN -a ELSE a

\* n / d rounded to the nearest integer, d # 0
RoundDiv(n, d) ==
    LET q == (2 * Abs(n) + Abs(d)) \div (2 * Abs(d))
    IN  IF Sgn(n) * Sgn(d) < 0 THEN -q ELSE q

FNeg(a) == IF IsNaN(a) THEN NaN ELSE -a

FAdd(a, b) ==
    IF IsNaN(a) \/ IsNaN(b) THEN NaN
    ELSE IF IsInf(a) THEN (IF IsInf(b) /\ b # a THEN NaN ELSE a)
    ELSE IF IsInf(b) THEN b
    ELSE a + b

FSub(a, b) == FAdd(a, FNeg(b))

FMul(a, b) ==
    IF IsNaN(a) \/ IsNaN(b) THEN NaN
    ELSE IF IsInf(a) \/ IsInf(b)
         THEN (IF a = 0 \/ b = 0 THEN NaN
               ELSE IF Sgn(a) * Sgn(b) > 0 THEN PInf ELSE NInf)
    ELSE RoundDiv(a * b, Scale)

FDiv(a, b) ==
    IF IsNaN(a) \/ IsNaN(b) THEN NaN
    ELSE IF IsInf(a) THEN (IF IsInf(b) THEN NaN
                           ELSE IF Sgn(a) * (IF b < 0 THEN -1 ELSE 1) > 0
                                THEN PInf ELSE NInf)
    ELSE IF IsInf(b) THEN 0
    ELSE IF b = 0 THEN (IF a = 0 THEN NaN ELSE IF a > 0 THEN PInf ELSE NInf)
    ELSE RoundDiv(a * Scale, b)

\* comparisons with NaN are false
FLt(a, b) == ~IsNaN(a) /\ ~IsNaN(b) /\ a < b
FGt(a, b) == FLt(b, a)

RECURSIVE SqrtSearch(_, _, _)
\* the largest r in lo..hi with r * r <= n
SqrtSearch(n, lo, hi) ==
    IF lo >= hi THEN lo
    ELSE LET mid == (lo + hi + 1) \div 2
         IN  IF mid * mid <= n THEN SqrtSearch(n, mid, hi)
             ELSE SqrtSearch(n, lo, mid - 1)

ISqrt(n) ==
    LET r == SqrtSearch(n, 0, 40000)
    IN  IF (r + 1) * (r + 1) - n < n - r * r THEN r + 1 ELSE r

FSqrt(a) ==
    IF IsNaN(a) THEN NaN
    ELSE IF a = PInf THEN PInf
    ELSE IF a < 0 THEN NaN
    ELSE ISqrt(a * Scale)

(***************************************************************************)
(* SpiralPoint geometry, SpiralVase.cpp lines 9-74                         *)
(***************************************************************************)
SpiralPoint(px, py) == [x |-> px, y |-> py]

distance(a, b) ==
    FSqrt(FAdd(FMul(FSub(a.x, b.x), FSub(a.x, b.x)),
               FMul(FSub(a.y, b.y), FSub(a.y, b.y))))

subtract(a, b) == SpiralPoint(FSub(a.x, b.x), FSub(a.y, b.y))

add(a, b) == SpiralPoint(FAdd(a.x, b.x), FAdd(a.y, b.y))

scale(a, factor) == SpiralPoint(FMul(a.x, factor), FMul(a.y, factor))

dot(a, b) == FAdd(FMul(a.x, b.x), FMul(a.y, b.y))

\* the clamp of lines 48-49: a NaN passes both comparisons unchanged
ClampT(t) ==
    LET t1 == IF FGt(t, Scale) THEN Scale ELSE t
    IN  IF FLt(t1, 0) THEN 0 ELSE t1

nearest_point_on_line(c, a, b) ==
    LET ab == subtract(b, a)
        ca == subtract(c, a)
        t == ClampT(FDiv(dot(ca, ab), dot(ab, ab)))
        closest == add(a, scale(ab, t))
    IN  [closest |-> closest, dist |-> distance(c, closest)]

RECURSIVE PolygonScan(_, _, _, _)
\* the loop of lines 62-70 from index i on, acc = [min, closest, found]
PolygonScan(p, polygon, i, acc) ==
    IF i > Len(polygon) - 1 THEN acc
    ELSE LET cur == nearest_point_on_line(p, polygon[i], polygon[i + 1])
         IN  PolygonScan(p, polygon, i + 1,
                 IF FLt(cur.dist, acc.min)
                 THEN [min |-> cur.dist, closest |-> cur.closest, found |-> TRUE]
                 ELSE acc)

\* found and dist are the caller's variables (initialised false and 0 at
\* lines 170-171): they are left untouched on the early return
nearest_point_on_polygon(p, polygon) ==
    IF Len(polygon) < 2
    THEN [closest |-> SpiralPoint(0, 0), found |-> FALSE, dist |-> 0]
    ELSE LET r == PolygonScan(p, polygon, 1,
                      [min |-> FLT_MAX, closest |-> SpiralPoint(0, 0), found |-> FALSE])
         IN  [closest |-> r.closest, found |-> r.found, dist |-> r.min]

(***************************************************************************)
(* GCodeReader and GCodeReader::GCodeLine, the line parser the core calls  *)
(* (GCodeReader.hpp is not part of the translated sources).  A line is its *)
(* command word, the set of axis fields it carries and their values; the   *)
(* value of a field the line does not carry reads as 0.                    *)
(***************************************************************************)
Axes == {"X", "Y", "Z", "E"}

GCodeLine(c, h, vx, vy, vz, ve) ==
    [cmd |-> c, has |-> h, x |-> vx, y |-> vy, z |-> vz, e |-> ve]

has(line, axis) == axis \in line.has
cmd_is(line, c) == line.cmd = c

dist_X(line, reader) == IF has(line, "X") THEN FSub(line.x, reader.x) ELSE 0
dist_Y(line, reader) == IF has(line, "Y") THEN FSub(line.y, reader.y) ELSE 0
dist_Z(line, reader) == IF has(line, "Z") THEN FSub(line.z, reader.z) ELSE 0
dist_E(line, reader) == IF has(line, "E") THEN FSub(line.e, reader.e) ELSE 0
new_Z(line, reader) == IF has(line, "Z") THEN line.z ELSE reader.z

dist_XY(line, reader) ==
    LET dx == dist_X(line, reader)
        dy == dist_Y(line, reader)
    IN  FSqrt(FAdd(FMul(dx, dx), FMul(dy, dy)))

extruding(line, reader) == cmd_is(line, "G1") /\ FGt(dist_E(line, reader), 0)

\* GCodeLine::set: the field is added or replaced and the text regenerated
LineSet(line, axis, v) ==
    [line EXCEPT !.has = @ \cup {axis},
                 !.x = IF axis = "X" THEN v ELSE @,
                 !.y = IF axis = "Y" THEN v ELSE @,
                 !.z = IF axis = "Z" THEN v ELSE @,
                 !.e = IF axis = "E" THEN v ELSE @]

\* the reader as the callback sees it: with relative extruder distances the
\* E position restarts at 0 for every line that carries E
BeforeLine(reader, line, relative_e) ==
    IF has(line, "E") /\ relative_e THEN [reader EXCEPT !.e = 0] ELSE reader

\* update_coordinates: a G0, G1 or G92 line sets the reader to the fields it carries
\* (the line as parsed: the callback rewrites a copy)
update_coordinates(reader, line) ==
    IF cmd_is(line, "G1") \/ cmd_is(line, "G0") \/ cmd_is(line, "G92")
    THEN [x |-> IF has(line, "X") THEN line.x ELSE reader.x,
          y |-> IF has(line, "Y") THEN line.y ELSE reader.y,
          z |-> IF has(line, "Z") THEN line.z ELSE reader.z,
          e |-> IF has(line, "E") THEN line.e ELSE reader.e]
    ELSE reader

RECURSIVE parse_positions(_, _, _)
\* parse_buffer without a callback: the reader after the whole buffer
parse_positions(reader, buf, relative_e) ==
    IF buf = <<>> THEN reader
    ELSE parse_positions(update_coordinates(BeforeLine(reader, Head(buf), relative_e),
                                            Head(buf)),
                         Tail(buf), relative_e)

(***************************************************************************)
(* The measuring pass, lines 94-119                                        *)
(***************************************************************************)
\* the callback of lines 103-115; m = [total_layer_length, layer_height, z, set_z]
MeasureLine(m, reader, line) ==
    IF cmd_is(line, "G1")
    THEN IF extruding(line, reader)
         THEN [m EXCEPT !.total_layer_length = FAdd(@, dist_XY(line, reader))]
         ELSE IF has(line, "Z")
              THEN [m EXCEPT !.layer_height = FAdd(@, dist_Z(line, reader)),
                             !.z = IF m.set_z THEN @ ELSE new_Z(line, reader),
                             !.set_z = TRUE]
              ELSE m
    ELSE m

RECURSIVE MeasureScan(_, _, _, _)
MeasureScan(m, r, buf, relative_e) ==
    IF buf = <<>> THEN m
    ELSE LET rb == BeforeLine(r, Head(buf), relative_e)
         IN  MeasureScan(MeasureLine(m, rb, Head(buf)),
                         update_coordinates(rb, Head(buf)),
                         Tail(buf), relative_e)

\* line 119: remove the layer height from the initial Z
InitialZ(zfirst, height) == FSub(zfirst, height)

\* the three results of the measuring pass
Measured(m) ==
    [total_layer_length |-> m.total_layer_length,
     layer_height |-> m.layer_height,
     z |-> InitialZ(m.z, m.layer_height)]

\* lines 94-119 on a clone of the reader
Measure(reader, buf, relative_e) ==
    Measured(MeasureScan([total_layer_length |-> 0, layer_height |-> 0,
                          z |-> 0, set_z |-> FALSE],
                         reader, buf, relative_e))

(***************************************************************************)
(* The rewriting pass, lines 121-208                                       *)
(***************************************************************************)
NULL == [alloc |-> FALSE, pts |-> <<>>]
Vector(points) == [alloc |-> TRUE, pts |-> points]

\* line 127
max_xy_smoothing == Scale

\* line 150
Factor(len, total) == FDiv(len, total)

\* line 153
TransitionE(e, factor) == FMul(e, factor)

RampDownE_Factor(e, factor) == FMul(e, factor)

\* line 159
RampDownE(e, factor) == FMul(e, FSub(Scale, factor))

RampZ_Down(z0, factor, height) == FAdd(z0, FMul(FSub(Scale, factor), height))

\* line 163
RampZ(z0, factor, height) == FAdd(z0, FMul(factor, height))

\* line 175
Blend(nearestp, p, factor) ==
    add(scale(nearestp, FSub(Scale, factor)), scale(p, factor))

SmoothE_Inverse(e, modified_dist_XY, d) == FDiv(FMul(e, d), modified_dist_XY)

\* line 181
SmoothE(e, modified_dist_XY, d) == FDiv(FMul(e, modified_dist_XY), d)

\* line 134
InitialLastPoint(prev) ==
    IF prev.alloc /\ Len(prev.pts) > 0 THEN prev.pts[Len(prev.pts)]
    ELSE SpiralPoint(0, 0)

SmoothingHit_DistanceOnly(np) == FLt(np.dist, max_xy_smoothing)

\* line 173
SmoothingHit(np) == np.found /\ FLt(np.dist, max_xy_smoothing)

ReferenceLayer_Current(prev, cur) == cur

\* the vector searched at line 172
ReferenceLayer(prev, cur) == prev

\* the point read at line 166
StoredPoint(line) == SpiralPoint(line.x, line.y)

\* the point pushed at line 167
PushedPoint(p, emitted) == p

\* one record of trace: the line as parsed, the reader the callback saw, the
\* lines appended to new_gcode (out) and to transition_gcode (side), and the
\* locals of the extruding branch; last_point is its value before the line
Entry(kind, line, reader, out, side) ==
    [kind |-> kind, line |-> line, reader |-> reader, out |-> out, side |-> side,
     dist_XY |-> 0, len |-> 0, factor |-> 0, p |-> SpiralPoint(0, 0),
     searched |-> FALSE, hit |-> FALSE, nearestp |-> SpiralPoint(0, 0), dist |-> 0,
     target |-> SpiralPoint(0, 0), last_point |-> SpiralPoint(0, 0)]

\* lines 145-188, an extruding horizontal move, statement by statement; v is
\* the Entry of the line, c the values and st the references the callback
\* captured.  Line 145:
Horizontal(st, reader, line) ==
    [Entry("extrude", line, reader, <<line>>, <<>>) EXCEPT
       !.dist_XY = dist_XY(line, reader), !.last_point = st.last_point]

\* line 149
AddLen(st, v) == [v EXCEPT !.len = FAdd(st.len, v.dist_XY)]

\* line 150
SetFactor(c, v) == [v EXCEPT !.factor = Factor(v.len, c.total_layer_length)]

\* lines 151-161
Taper(c, v) ==
    IF c.transition
    THEN [v EXCEPT !.out = <<LineSet(v.line, "E", TransitionE(v.line.e, v.factor))>>]
    ELSE IF c.last_layer
         THEN [v EXCEPT !.side = <<LineSet(v.line, "E", RampDownE(v.line.e, v.factor))>>]
         ELSE v

\* line 163
Ramp(c, v) ==
    [v EXCEPT !.out = <<LineSet(v.out[1], "Z", RampZ(c.z, v.factor, c.layer_height))>>]

\* lines 164-169
Point(c, v) ==
    IF c.smooth_spiral
    THEN [v EXCEPT !.p = StoredPoint(v.out[1]), !.searched = c.previous_layer.alloc]
    ELSE v

\* lines 170-173 with the result np of the search
Found(v, np) ==
    [v EXCEPT !.nearestp = np.closest, !.dist = np.dist, !.hit = SmoothingHit(np)]

\* lines 169-173
Search(st, c, v) ==
    IF v.searched
    THEN Found(v, nearest_point_on_polygon(v.p,
                      ReferenceLayer(c.previous_layer.pts,
                                     Append(st.current_layer, v.p))))
    ELSE v

\* lines 176-181 with the target of line 175
SmoothTo(v, target) ==
    [v EXCEPT !.target = target,
              !.out = <<LineSet(LineSet(LineSet(v.out[1], "X", target.x), "Y", target.y),
                                "E", SmoothE(v.out[1].e, distance(v.last_point, target),
                                             v.dist_XY))>>]

\* lines 173-185
Smooth(v) == IF v.hit THEN SmoothTo(v, Blend(v.nearestp, v.p, v.factor)) ELSE v

\* lines 182 and 184
NextLastPoint(v) ==
    IF ~v.searched THEN v.last_point ELSE IF v.hit THEN v.target ELSE v.p

\* what the line leaves in the captured references (lines 149, 160, 167,
\* 182-184, 188)
Commit(st, c, v) ==
    [new_gcode |-> Append(st.new_gcode, v.out[1]),
     transition_gcode |-> st.transition_gcode \o v.side,
     len |-> v.len,
     current_layer |-> IF c.smooth_spiral
                       THEN Append(st.current_layer,
                                   PushedPoint(v.p, IF v.hit THEN v.target ELSE v.p))
                       ELSE st.current_layer,
     last_point |-> NextLastPoint(v),
     trace |-> Append(st.trace, v)]

\* lines 148-189
ExtrudeLine(st, reader, line, c) ==
    Commit(st, c,
           Smooth(Search(st, c,
                  Point(c, Ramp(c, Taper(c, SetFactor(c,
                        AddLen(st, Horizontal(st, reader, line)))))))))

\* lines 138-143: a G1 with a Z field is moved to the initial Z
ZLine(st, reader, line, c) ==
    LET out == LineSet(line, "Z", c.z)
    IN  [st EXCEPT !.new_gcode = Append(@, out),
                   !.trace = Append(@, Entry("z", line, reader, <<out>>, <<>>))]

TravelLine_Emitted(st, reader, line, c) ==
    [st EXCEPT !.new_gcode = Append(@, line),
               !.trace = Append(@, Entry("travel", line, reader, <<line>>, <<>>))]

\* line 190 without line 148: a travel move is skipped
TravelLine(st, reader, line, c) ==
    [st EXCEPT !.trace = Append(@, Entry("travel", line, reader, <<>>, <<>>))]

PassLine_NoCopy(st, reader, line, c) ==
    [st EXCEPT !.new_gcode = Append(@, line),
               !.trace = Append(@, Entry("pass", line, reader, <<line>>, <<>>))]

\* lines 199-202: everything else is copied
PassLine(st, reader, line, c) ==
    LET side == IF c.last_layer THEN <<line>> ELSE <<>>
    IN  [st EXCEPT !.new_gcode = Append(@, line),
                   !.transition_gcode = @ \o side,
                   !.trace = Append(@, Entry("pass", line, reader, <<line>>, side))]

\* the callback of lines 136-203
RewriteLine(st, reader, line, c) ==
    IF cmd_is(line, "G1")
    THEN IF has(line, "Z") THEN ZLine(st, reader, line, c)
         ELSE IF FGt(dist_XY(line, reader), 0)
              THEN IF has(line, "E") THEN ExtrudeLine(st, reader, line, c)
                   ELSE TravelLine(st, reader, line, c)
              ELSE PassLine(st, reader, line, c)
    ELSE PassLine(st, reader, line, c)

RECURSIVE RewriteScan(_, _, _, _, _)
RewriteScan(st, r, buf, relative_e, c) ==
    IF buf = <<>> THEN st
    ELSE LET rb == BeforeLine(r, Head(buf), relative_e)
         IN  RewriteScan(RewriteLine(st, rb, Head(buf), c),
                         update_coordinates(rb, Head(buf)),
                         Tail(buf), relative_e, c)

Transition_AnyMode(transition_layer, relative_e) == transition_layer

\* line 132
Transition(transition_layer, relative_e) == transition_layer /\ relative_e

Returned_SideFirst(new, side) == side \o new

\* line 208
Returned(new, side) == new \o side

(***************************************************************************)
(* The instance: construction, enable() and process_layer()                *)
(***************************************************************************)
\* no call is under way
NoCall ==
    [gcode |-> <<>>, last_layer |-> FALSE, active |-> FALSE,
     total_layer_length |-> 0, layer_height |-> 0, z |-> 0,
     previous_layer |-> NULL, current_layer |-> <<>>, transition |-> FALSE,
     new_gcode |-> <<>>, transition_gcode |-> <<>>, trace |-> <<>>, ret |-> <<>>]

\* the arguments, the locals and the result of the call, by their names in
\* process_layer; active is m_enabled as read at line 88
gcode == call.gcode
last_layer == call.last_layer
active == call.active
total_layer_length == call.total_layer_length
layer_height == call.layer_height
z == call.z
previous_layer == call.previous_layer
current_layer == call.current_layer
transition == call.transition
new_gcode == call.new_gcode
transition_gcode == call.transition_gcode
trace == call.trace
ret == call.ret

\* the constructor: z_offset 0, no previous layer, disabled
Init ==
    /\ m_enabled = FALSE
    /\ m_transition_layer = FALSE
    /\ m_smooth_spiral \in BOOLEAN
    /\ use_relative_e_distances \in BOOLEAN
    /\ m_previous_layer = NULL
    /\ m_reader = [x |-> 0, y |-> 0, z |-> 0, e |-> 0]
    /\ call = NoCall

config == <<m_smooth_spiral, use_relative_e_distances>>

\* SpiralVase::enable, called between the layers
enable(en) ==
    /\ call = NoCall
    /\ m_transition_layer' = (en /\ ~m_enabled)
    /\ m_enabled' = en
    /\ UNCHANGED <<config, m_previous_layer, m_reader, call>>

PassThroughResult_Rewritten(buf, last) ==
    [NoCall EXCEPT !.gcode = buf, !.last_layer = last, !.ret = <<>>]

\* lines 88-91: what a disabled instance returns
PassThroughResult(buf, last) ==
    [NoCall EXCEPT !.gcode = buf, !.last_layer = last, !.ret = buf]

\* the values the callback captures at line 135
Captured(m, prev, transition_layer, smooth, relative_e, last) ==
    [z |-> m.z, total_layer_length |-> m.total_layer_length,
     layer_height |-> m.layer_height,
     transition |-> Transition(transition_layer, relative_e),
     last_layer |-> last, smooth_spiral |-> smooth, previous_layer |-> prev]

\* the references it captures, as lines 121-134 leave them
Fresh(prev) ==
    [new_gcode |-> <<>>, transition_gcode |-> <<>>, len |-> 0, current_layer |-> <<>>,
     last_point |-> InitialLastPoint(prev), trace |-> <<>>]

\* the locals and the result once the rewriting pass is over
Finished(buf, c, st) ==
    [gcode |-> buf, last_layer |-> c.last_layer, active |-> TRUE,
     total_layer_length |-> c.total_layer_length,
     layer_height |-> c.layer_height, z |-> c.z,
     previous_layer |-> c.previous_layer, current_layer |-> st.current_layer,
     transition |-> c.transition,
     new_gcode |-> st.new_gcode, transition_gcode |-> st.transition_gcode,
     trace |-> st.trace,
     ret |-> Returned(st.new_gcode, st.transition_gcode)]

\* lines 121-208
RewriteWith(reader, relative_e, buf, c) ==
    Finished(buf, c, RewriteScan(Fresh(c.previous_layer), reader, buf, relative_e, c))

\* lines 94-208: the locals and the result of an enabled call
RewriteResult(reader, prev, transition_layer, smooth, relative_e, buf, last) ==
    RewriteWith(reader, relative_e, buf,
                Captured(Measure(reader, buf, relative_e),
                         prev, transition_layer, smooth, relative_e, last))

Retained_Appended(prev, cur) == Vector(prev.pts \o cur)

\* lines 205-206
Retained(prev, cur) == Vector(cur)

Untouched_Cleared(prev) == NULL

\* what a disabled call leaves in m_previous_layer
Untouched(prev) == prev

\* process_layer on a disabled instance
PassThrough(buf, last) ==
    /\ call' = PassThroughResult(buf, last)
    /\ m_reader' = parse_positions(m_reader, buf, use_relative_e_distances)
    /\ m_previous_layer' = Untouched(m_previous_layer)
    /\ UNCHANGED <<m_enabled, m_transition_layer, config>>

\* process_layer on an enabled instance
Rewrite(buf, last) ==
    /\ call' = RewriteResult(m_reader, m_previous_layer, m_transition_layer,
                             m_smooth_spiral, use_relative_e_distances, buf, last)
    /\ m_reader' = parse_positions(m_reader, buf, use_relative_e_distances)
    /\ m_previous_layer' = Retained(m_previous_layer, call'.current_layer)
    /\ UNCHANGED <<m_enabled, m_transition_layer, config>>

\* process_layer(gcode, last_layer) with a text of the set S
process_layer_disabled(S) ==
    /\ call = NoCall
    /\ ~m_enabled
    /\ \E buf \in S, last \in BOOLEAN : PassThrough(buf, last)

process_layer_enabled(S) ==
    /\ call = NoCall
    /\ m_enabled
    /\ \E buf \in S, last \in BOOLEAN : Rewrite(buf, last)

\* the return to the caller (lines 90 and 208): the locals are gone
Return ==
    /\ call # NoCall
    /\ call' = NoCall
    /\ UNCHANGED <<m_enabled, m_transition_layer, config, m_previous_layer, m_reader>>

(***************************************************************************)
(* The layers fed to the instance                                          *)
(***************************************************************************)
MaxBody == 2
MaxLen == 3

G1(h, vx, vy, vz, ve) == GCodeLine("G1", h, vx, vy, vz, ve)

ZMove1 == G1({"Z"}, 0, 0, 300, 0)
ZMove2 == G1({"Z"}, 0, 0, 600, 0)
ExtrudeA == G1({"X", "Y", "E"}, 2000, 0, 0, 1000)
ExtrudeB == G1({"X", "Y", "E"}, 2000, 2000, 0, 1000)
ExtrudeC == G1({"X", "Y", "E"}, 1500, 1000, 0, 1000)
ExtrudeMore == G1({"X", "Y", "E"}, 0, 2000, 0, 2000)
TravelD == G1({"X", "Y"}, 0, 2000, 0, 0)
ResetE == GCodeLine("G92", {"E"}, 0, 0, 0, 0)
ExtrudeX == G1({"X", "E"}, 1000, 0, 0, 1000)
ExtrudeZ == G1({"X", "Y", "Z", "E"}, 2000, 2000, 900, 1000)
RetractMove == G1({"X", "Y", "E"}, 1000, 0, 0, -500)
Retract == G1({"E"}, 0, 0, 0, -1000)

SeqsUpTo(S, n) == UNION {[1..k -> S] : k \in 1..n}

\* a layer as the slicer writes it: the Z move, then the extrusions of the loop
BodyLines == {ExtrudeA, ExtrudeB, ExtrudeC}
LoopLayers == {<<zm>> \o body : zm \in {ZMove1, ZMove2},
                                body \in SeqsUpTo(BodyLines, MaxBody)}

\* any text
Lines == {ZMove1, ZMove2, ExtrudeA, ExtrudeMore, TravelD, ResetE,
          ExtrudeX, ExtrudeZ, RetractMove, Retract}
Layers == SeqsUpTo(Lines, MaxLen)

\* a print job: layer after layer through one instance
Next ==
    \/ \E en \in BOOLEAN : enable(en)
    \/ process_layer_disabled(LoopLayers)
    \/ process_layer_enabled(LoopLayers)
    \/ Return

Spec == Init /\ [][Next]_vars

\* the first call on a new instance, with any text
NextLines ==
    \/ \E en \in BOOLEAN : enable(en)
    \/ process_layer_disabled(Layers)
    \/ process_layer_enabled(Layers)

SpecLines == Init /\ [][NextLines]_vars

\* a print job whose layers may end a loop with a wipe: a retracting move
\* with horizontal displacement
WipeC == G1({"X", "Y", "E"}, 1500, 1000, 0, -500)
WipeLines == {ExtrudeA, ExtrudeB, WipeC}
WipeLayers == {<<zm>> \o body : zm \in {ZMove1, ZMove2},
                                body \in SeqsUpTo(WipeLines, MaxBody)}

NextWipe ==
    \/ \E en \in BOOLEAN : enable(en)
    \/ process_layer_disabled(WipeLayers)
    \/ process_layer_enabled(WipeLayers)
    \/ Return

SpecWipe == Init /\ [][NextWipe]_vars

\* the reference search on its own: an enabled instance with smoothing that
\* has retained any sequence of up to MaxPts points of a grid (a loop with
\* travel moves may visit a point twice in a row) is given a layer of one
\* extruding move to a point of the grid
MaxPts == 3

GridPoints == {SpiralPoint(px, py) : px \in {0, 1000, 2000}, py \in {0, 1000}}
Polygons == {<<>>} \cup SeqsUpTo(GridPoints, MaxPts)
QueryLayers == {<<G1({"X", "Y", "E"}, q.x, q.y, 0, 1000)>> : q \in GridPoints}

InitSearch ==
    /\ m_enabled = TRUE
    /\ m_transition_layer = FALSE
    /\ m_smooth_spiral = TRUE
    /\ use_relative_e_distances = TRUE
    /\ m_previous_layer \in {Vector(polygon) : polygon \in Polygons}
    /\ m_reader = [x |-> 500, y |-> 500, z |-> 300, e |-> 0]
    /\ call = NoCall

NextSearch ==
    \/ process_layer_enabled(QueryLayers)
    \/ Return

SpecSearch == InitSearch /\ [][NextSearch]_vars

(***************************************************************************)
(* Properties.  The commands of a call are named by their index in the     *)
(* text; their kind is decided again here from the parsed line and the     *)
(* position the reader had.                                                *)
(***************************************************************************)
Called == call # NoCall
ActiveCall == Called /\ active

\* the k-th line of the text c.gcode as the callback received it
LineAt(c, i) == c.trace[i].line
ReaderAt(c, i) == c.trace[i].reader
DistAt(c, i) == dist_XY(LineAt(c, i), ReaderAt(c, i))

IsZMove(c, i) == cmd_is(LineAt(c, i), "G1") /\ has(LineAt(c, i), "Z")
IsHorizontal(c, i) ==
    cmd_is(LineAt(c, i), "G1") /\ ~has(LineAt(c, i), "Z") /\ FGt(DistAt(c, i), 0)
IsExtrusion(c, i) == IsHorizontal(c, i) /\ has(LineAt(c, i), "E")
IsTravel(c, i) == IsHorizontal(c, i) /\ ~has(LineAt(c, i), "E")
IsOther(c, i) == ~IsZMove(c, i) /\ ~IsHorizontal(c, i)

Extrusions(c) == {i \in 1..Len(c.trace) : IsExtrusion(c, i)}

\* where line i of the text is found in new_gcode
OutIdx(c, i) == Cardinality({j \in 1..i : ~IsTravel(c, j)})
OutLine(c, i) == c.new_gcode[OutIdx(c, i)]

RECURSIVE CumLen(_, _)
\* the horizontal length of the extrusions among lines 1..i
CumLen(c, i) ==
    IF i = 0 THEN 0
    ELSE IF IsExtrusion(c, i) THEN FAdd(CumLen(c, i - 1), DistAt(c, i))
         ELSE CumLen(c, i - 1)

\* progress through the layer at line i
FactorAt(c, i) == FDiv(CumLen(c, i), c.total_layer_length)

FirstExtrusion(c) == CHOOSE i \in Extrusions(c) : \A j \in Extrusions(c) : i <= j
LastExtrusion(c) == CHOOSE i \in Extrusions(c) : \A j \in Extrusions(c) : j <= i

\* C1: a process_layer call on a disabled instance returns the text it was
\* given, appends nothing from the side buffer and leaves the retained
\* previous-layer points as they were
C1_DisabledCallIsNoOp ==
    [][(call = NoCall /\ call' # NoCall /\ ~m_enabled)
         => /\ call'.ret = call'.gcode
            /\ call'.transition_gcode = <<>>
            /\ m_previous_layer' = m_previous_layer]_vars

C1_Witness ==
    /\ Called /\ ~active /\ last_layer
    /\ ret = gcode
    /\ m_previous_layer.alloc /\ Len(m_previous_layer.pts) >= 2

\* C2 as stated: the Z of the extruding horizontal commands never decreases,
\* is start_z at the first of them and start_z + total_z_height at the last
C2_ZSpansLayerExactly ==
    (ActiveCall /\ Extrusions(call) # {})
      => /\ \A i, j \in Extrusions(call) :
               i <= j => OutLine(call, i).z <= OutLine(call, j).z
         /\ OutLine(call, FirstExtrusion(call)).z = z
         /\ OutLine(call, LastExtrusion(call)).z = FAdd(z, layer_height)

\* C2 amended: every extruding horizontal command gets
\* Z = start_z + (len / total_xy_length) * total_z_height, len being the
\* length of the extrusions up to and including it; with a positive total
\* length and a layer that does not descend these Z never decrease and are
\* never below start_z, the first is start_z + (d1 / total) * height, and the
\* last is start_z + total_z_height when its len equals total_xy_length
C2_ZRamp ==
    ActiveCall =>
      /\ \A i \in Extrusions(call) :
           /\ has(OutLine(call, i), "Z")
           /\ OutLine(call, i).z = FAdd(z, FMul(FactorAt(call, i), layer_height))
      /\ (total_layer_length > 0 /\ layer_height >= 0 /\ Extrusions(call) # {})
           => /\ \A i, j \in Extrusions(call) :
                    i <= j => OutLine(call, i).z <= OutLine(call, j).z
              /\ \A i \in Extrusions(call) : OutLine(call, i).z >= z
              /\ LET f == FirstExtrusion(call)
                 IN  OutLine(call, f).z
                       = z + RoundDiv(RoundDiv(DistAt(call, f) * Scale, total_layer_length)
                                        * layer_height, Scale)
              /\ CumLen(call, LastExtrusion(call)) = total_layer_length
                   => OutLine(call, LastExtrusion(call)).z = z + layer_height

C2_Witness ==
    /\ ActiveCall /\ Cardinality(Extrusions(call)) >= 2
    /\ total_layer_length > 0 /\ layer_height > 0
    /\ CumLen(call, LastExtrusion(call)) = total_layer_length
    /\ OutLine(call, FirstExtrusion(call)).z > z
    /\ OutLine(call, FirstExtrusion(call)).z < OutLine(call, LastExtrusion(call)).z
    /\ OutLine(call, LastExtrusion(call)).z = z + layer_height

\* C3: a layer whose measured total_xy_length is 0 is passed through: every
\* command is in the output as it was in the text and no factor comes from
\* a division by zero
C3_ZeroLengthLayerPassesThrough ==
    (ActiveCall /\ total_layer_length = 0)
      => /\ new_gcode = gcode
         /\ \A i \in 1..Len(trace) : IsFinite(trace[i].factor)

\* the points read from the extruding horizontal commands among lines 1..i:
\* the X and Y values of each command, 0 for a coordinate it does not give
RECURSIVE PointsUpTo(_, _)
PointsUpTo(c, i) ==
    IF i = 0 THEN <<>>
    ELSE IF IsExtrusion(c, i)
         THEN Append(PointsUpTo(c, i - 1), SpiralPoint(LineAt(c, i).x, LineAt(c, i).y))
         ELSE PointsUpTo(c, i - 1)

ExtrusionPoints(c) == PointsUpTo(c, Len(c.trace))

\* the reference found for line i in the points retained before the call
NearestAt(c, i) ==
    nearest_point_on_polygon(SpiralPoint(LineAt(c, i).x, LineAt(c, i).y),
                             c.previous_layer.pts)

\* smoothing is triggered for line i
TriggeredAt(c, i) ==
    /\ m_smooth_spiral /\ c.previous_layer.alloc
    /\ NearestAt(c, i).found /\ FLt(NearestAt(c, i).dist, max_xy_smoothing)

\* the emitted XY of line i differs from the XY it was given
Blended(c, i) ==
    \/ OutLine(c, i).x # LineAt(c, i).x
    \/ OutLine(c, i).y # LineAt(c, i).y

\* C4 as stated: after an active call the retained set holds one point per
\* extruding horizontal command, its un-smoothed XY, in emission order,
\* with smoothing enabled or disabled
C4_RetainedOnePointPerExtrusion ==
    ActiveCall => /\ m_previous_layer.alloc
                  /\ m_previous_layer.pts = ExtrusionPoints(call)

\* C4 amended: with smoothing enabled the retained set holds exactly one
\* point per extruding horizontal command, in emission order, each the X and
\* Y values the command was given (un-smoothed even when the emitted XY was
\* blended); with smoothing disabled the retained set is empty
C4_RetainedPoints ==
    ActiveCall =>
      /\ m_previous_layer.alloc
      /\ m_smooth_spiral => m_previous_layer.pts = ExtrusionPoints(call)
      /\ ~m_smooth_spiral => m_previous_layer.pts = <<>>

C4_Witness ==
    /\ ActiveCall /\ m_smooth_spiral
    /\ Cardinality(Extrusions(call)) >= 2
    /\ previous_layer.alloc /\ Len(previous_layer.pts) >= 2
    /\ previous_layer.pts # m_previous_layer.pts
    /\ \E i \in Extrusions(call) : Blended(call, i)
    /\ Len(m_previous_layer.pts) = Cardinality(Extrusions(call))
    /\ m_previous_layer.pts = ExtrusionPoints(call)

\* the lines of the text that leave a line in the side buffer of a last
\* layer without transition tapering, and where line i leaves it
InSide(c, i) == IsExtrusion(c, i) \/ IsOther(c, i)
SideIdx(c, i) == Cardinality({j \in 1..i : InSide(c, j)})
SideLine(c, i) == c.transition_gcode[SideIdx(c, i)]

\* the factor with which line 159 scales the clone
Remaining(c, i) == FSub(Scale, FactorAt(c, i))

\* the clones and the main output of a last layer without transition
\* tapering, apart from the Z of the clones
RampDownClones(c) ==
    /\ Len(c.transition_gcode) = Cardinality({j \in 1..Len(c.trace) : InSide(c, j)})
    /\ \A i \in Extrusions(c) :
         /\ SideLine(c, i).cmd = LineAt(c, i).cmd
         /\ SideLine(c, i).x = LineAt(c, i).x
         /\ SideLine(c, i).y = LineAt(c, i).y
         /\ SideLine(c, i).e = FMul(LineAt(c, i).e, Remaining(c, i))
         /\ OutLine(c, i).z = FAdd(c.z, FMul(FactorAt(c, i), c.layer_height))
         /\ ~TriggeredAt(c, i) => OutLine(c, i).e = LineAt(c, i).e

\* C5 as stated: on a last layer without transition tapering every
\* extruding horizontal command leaves one clone in the side buffer, with
\* extrusion e * (1 - factor) and with the ramped Z of the command in the
\* main output, which keeps its extrusion
C5_CloneKeepsRampedZ ==
    (ActiveCall /\ last_layer /\ ~transition) =>
      /\ RampDownClones(call)
      /\ \A i \in Extrusions(call) :
           /\ has(SideLine(call, i), "Z")
           /\ SideLine(call, i).z = OutLine(call, i).z

\* C5 amended: on a last layer without transition tapering every extruding
\* horizontal command leaves one clone in the side buffer, with the words of
\* the command as given (its X and Y, no Z word) and extrusion
\* e * (1 - factor); the command in the main output gets the ramped Z and
\* keeps its extrusion unless smoothing is triggered
C5_CloneHasNoZ ==
    (ActiveCall /\ last_layer /\ ~transition) =>
      /\ RampDownClones(call)
      /\ \A i \in Extrusions(call) :
           /\ SideLine(call, i).has = LineAt(call, i).has
           /\ ~has(SideLine(call, i), "Z")
           /\ has(OutLine(call, i), "Z")

C5_Witness ==
    /\ ActiveCall /\ last_layer /\ ~transition
    /\ Cardinality(Extrusions(call)) >= 2
    /\ layer_height > 0
    /\ \A i \in Extrusions(call) :
         /\ ~has(SideLine(call, i), "Z")
         /\ OutLine(call, i).z > z
    /\ \E i \in Extrusions(call) :
         /\ SideLine(call, i).e > 0
         /\ SideLine(call, i).e < LineAt(call, i).e
         /\ OutLine(call, i).e = LineAt(call, i).e
    /\ SideLine(call, LastExtrusion(call)).e = 0

\* the extrusion of line i after lines 151-153
TaperedE(c, i, tapering) ==
    IF tapering THEN FMul(LineAt(c, i).e, FactorAt(c, i)) ELSE LineAt(c, i).e

\* the point the rewriter holds as the last one when it reaches line i: the
\* XY emitted for the extruding horizontal command before it or, for the
\* first of the layer, the last point retained from the previous layer
TrackedAt(c, i) ==
    IF \E j \in Extrusions(c) : j < i
    THEN LET k == CHOOSE k \in Extrusions(c) :
                    k < i /\ \A j \in Extrusions(c) : j < i => j <= k
         IN  SpiralPoint(OutLine(c, k).x, OutLine(c, k).y)
    ELSE InitialLastPoint(c.previous_layer)

\* the extrusion written for line i, given its extrusion e after tapering
EmittedE(c, i, e) ==
    IF TriggeredAt(c, i)
    THEN FDiv(FMul(e, distance(TrackedAt(c, i),
                               SpiralPoint(OutLine(c, i).x, OutLine(c, i).y))),
              DistAt(c, i))
    ELSE e

\* C6: an active call tapers exactly when m_transition_layer is set and the
\* extruder distances are relative; it then multiplies the extrusion of
\* every extruding horizontal command by the command's factor, and
\* otherwise leaves the extrusion in the main output as given (smoothing,
\* when triggered, rescales the result in both cases)
C6_TaperingOnlyOnRelativeTransitionLayer ==
    [][(call = NoCall /\ call' # NoCall /\ m_enabled) =>
         /\ call'.transition = (m_transition_layer /\ use_relative_e_distances)
         /\ \A i \in Extrusions(call') :
              OutLine(call', i).e
                = EmittedE(call', i,
                           TaperedE(call', i,
                                    m_transition_layer /\ use_relative_e_distances))]_vars

C6_Witness ==
    /\ ActiveCall /\ transition
    /\ m_transition_layer /\ use_relative_e_distances
    /\ Cardinality(Extrusions(call)) >= 2
    /\ \E i \in Extrusions(call) :
         /\ FactorAt(call, i) > 0 /\ FactorAt(call, i) < Scale
         /\ OutLine(call, i).e = FMul(LineAt(call, i).e, FactorAt(call, i))
         /\ OutLine(call, i).e < LineAt(call, i).e

\* the same layer on an instance with absolute extruder distances
C6_WitnessAbsolute ==
    /\ ActiveCall /\ ~transition
    /\ m_transition_layer /\ ~use_relative_e_distances
    /\ \E i \in Extrusions(call) :
         /\ FactorAt(call, i) # Scale
         /\ OutLine(call, i).e = LineAt(call, i).e

\* C7: an active call returns the rewritten layer followed by the side
\* buffer, and the side buffer is empty unless last_layer is set
C7_OutputIsLayerThenSideBuffer ==
    ActiveCall =>
      /\ Len(ret) = Len(new_gcode) + Len(transition_gcode)
      /\ SubSeq(ret, 1, Len(new_gcode)) = new_gcode
      /\ SubSeq(ret, Len(new_gcode) + 1, Len(ret)) = transition_gcode
      /\ Len(new_gcode) = Cardinality({i \in 1..Len(trace) : ~IsTravel(call, i)})
      /\ ~last_layer => (transition_gcode = <<>> /\ ret = new_gcode)

C7_Witness ==
    /\ ActiveCall /\ last_layer
    /\ Len(new_gcode) >= 2 /\ Len(transition_gcode) >= 1
    /\ transition_gcode # SubSeq(new_gcode, 1, Len(transition_gcode))
    /\ ret = new_gcode \o transition_gcode

\* the lines of the text that are not travel moves, in their order
RECURSIVE KeptUpTo(_, _)
KeptUpTo(c, i) ==
    IF i = 0 THEN <<>>
    ELSE IF IsTravel(c, i) THEN KeptUpTo(c, i - 1)
         ELSE Append(KeptUpTo(c, i - 1), i)

Kept(c) == KeptUpTo(c, Len(c.trace))

\* line i of the text and the line written for it are the same command: the
\* same words, the same values but for Z and, when smoothing or tapering
\* act, X, Y and E
SameCommand(c, i, out) ==
    /\ out.cmd = LineAt(c, i).cmd
    /\ LineAt(c, i).has \subseteq out.has
    /\ out.has \subseteq (LineAt(c, i).has \cup {"X", "Y", "Z"})
    /\ (IsZMove(c, i) \/ IsOther(c, i))
         => (out.x = LineAt(c, i).x /\ out.y = LineAt(c, i).y /\ out.e = LineAt(c, i).e)

\* C8: the main output of an active call is the text without its travel
\* moves: one line per other command, in the order of the text, and the
\* commands that are not G1, or have no Z and no horizontal displacement,
\* as they were given
C8_OnlyTravelMovesRemoved ==
    ActiveCall =>
      /\ Len(trace) = Len(gcode)
      /\ \A i \in 1..Len(gcode) : LineAt(call, i) = gcode[i]
      /\ Len(new_gcode) = Len(Kept(call))
      /\ \A k \in 1..Len(Kept(call)) : SameCommand(call, Kept(call)[k], new_gcode[k])
      /\ \A i \in 1..Len(gcode) : IsOther(call, i) => OutLine(call, i) = gcode[i]

C8_Witness ==
    /\ ActiveCall /\ Len(gcode) = 3
    /\ IsTravel(call, 2) /\ gcode[2] = TravelD
    /\ IsOther(call, 3)
    /\ Len(new_gcode) = 2
    /\ new_gcode[2] = gcode[3]
    /\ \A k \in 1..Len(new_gcode) : new_gcode[k] # TravelD

\* C9: when smoothing is triggered for an extruding horizontal command, the
\* extrusion written is its extrusion after tapering times the distance from
\* the last tracked point to the XY written, divided by the distance the
\* command had; when it is not triggered, the XY and the extrusion after
\* tapering are written as they are
C9_ExtrusionFollowsSmoothedLength ==
    ActiveCall =>
      \A i \in Extrusions(call) :
        /\ OutLine(call, i).e = EmittedE(call, i, TaperedE(call, i, transition))
        /\ TriggeredAt(call, i)
             => /\ SpiralPoint(OutLine(call, i).x, OutLine(call, i).y)
                     = Blend(NearestAt(call, i).closest,
                             SpiralPoint(LineAt(call, i).x, LineAt(call, i).y),
                             FactorAt(call, i))
                /\ OutLine(call, i).has = LineAt(call, i).has \cup {"X", "Y", "Z"}
        /\ ~TriggeredAt(call, i)
             => /\ ~Blended(call, i)
                /\ OutLine(call, i).has = LineAt(call, i).has \cup {"Z"}
                /\ OutLine(call, i).e = TaperedE(call, i, transition)

C9_Witness ==
    /\ ActiveCall
    /\ \E i, j \in Extrusions(call) :
         /\ i < j
         /\ TriggeredAt(call, i) /\ Blended(call, i)
         /\ TriggeredAt(call, j)
         /\ OutLine(call, j).e # TaperedE(call, j, transition)
         /\ distance(TrackedAt(call, j),
                     SpiralPoint(OutLine(call, j).x, OutLine(call, j).y)) # DistAt(call, j)

\* a layer in which smoothing is enabled and finds no reference close enough
C9_WitnessNotTriggered ==
    /\ ActiveCall /\ m_smooth_spiral /\ previous_layer.alloc
    /\ \E i \in Extrusions(call) :
         /\ NearestAt(call, i).found
         /\ ~TriggeredAt(call, i)
         /\ OutLine(call, i).e = LineAt(call, i).e

\* the lines among 1..i for which the call searched a reference point
RECURSIVE SearchedUpTo(_, _)
SearchedUpTo(c, i) ==
    IF i = 0 THEN {}
    ELSE IF c.trace[i].searched THEN SearchedUpTo(c, i - 1) \cup {i}
         ELSE SearchedUpTo(c, i - 1)

\* C10: an active call searches, for every extruding horizontal command,
\* the points retained when the call began and no point of the current
\* layer, and it pushes the point the command was given, also when the XY
\* written was blended
C10_SmoothingReadsOnlyPreviousLayer ==
    [][(call = NoCall /\ call' # NoCall /\ m_enabled) =>
         /\ call'.previous_layer = m_previous_layer
         /\ SearchedUpTo(call', Len(call'.trace))
              = IF m_smooth_spiral /\ m_previous_layer.alloc
                THEN Extrusions(call') ELSE {}
         /\ \A i \in SearchedUpTo(call', Len(call'.trace)) :
              LET np == nearest_point_on_polygon(
                            SpiralPoint(LineAt(call', i).x, LineAt(call', i).y),
                            m_previous_layer.pts)
              IN  /\ call'.trace[i].nearestp = np.closest
                  /\ call'.trace[i].dist = np.dist
                  /\ call'.trace[i].hit = (np.found /\ FLt(np.dist, max_xy_smoothing))
         /\ m_smooth_spiral => call'.current_layer = ExtrusionPoints(call')]_vars

C10_Witness ==
    /\ ActiveCall /\ m_smooth_spiral
    /\ previous_layer.alloc /\ Len(previous_layer.pts) >= 2
    /\ Cardinality(Extrusions(call)) >= 2
    /\ \E i \in Extrusions(call) :
         /\ trace[i].hit /\ Blended(call, i)
         /\ trace[i].dist > 0
         /\ \A k \in 1..Len(previous_layer.pts) : previous_layer.pts[k] # trace[i].p
         /\ \E k \in 1..Len(current_layer) :
              current_layer[k] = SpiralPoint(LineAt(call, i).x, LineAt(call, i).y)

\* the call has no usable points of a previous layer: none retained yet, or
\* fewer than two
NoReference(c) == ~c.previous_layer.alloc \/ Len(c.previous_layer.pts) < 2

\* C11: with smoothing enabled and no usable previous-layer points, an active
\* call writes every extruding horizontal command with the XY it was given
\* and its extrusion after tapering, returns its output, and retains the
\* points of the layer
C11_NoReferenceNoSmoothing ==
    (ActiveCall /\ m_smooth_spiral /\ NoReference(call)) =>
      /\ \A i \in Extrusions(call) :
           /\ ~Blended(call, i)
           /\ OutLine(call, i).has = LineAt(call, i).has \cup {"Z"}
           /\ OutLine(call, i).e = TaperedE(call, i, transition)
      /\ ret = new_gcode \o transition_gcode
      /\ Len(new_gcode) = Len(Kept(call))
      /\ current_layer = ExtrusionPoints(call)
      /\ m_previous_layer = Vector(ExtrusionPoints(call))

\* a retained set of one point, and a layer of two extrusions
C11_Witness ==
    /\ ActiveCall /\ m_smooth_spiral
    /\ previous_layer.alloc /\ Len(previous_layer.pts) = 1
    /\ Cardinality(Extrusions(call)) = 2
    /\ \A i \in Extrusions(call) :
         /\ ~Blended(call, i)
         /\ LineAt(call, i).x # 0
    /\ Len(m_previous_layer.pts) = 2

\* the first active call of the instance
C11_WitnessFirstCall ==
    /\ ActiveCall /\ m_smooth_spiral /\ ~previous_layer.alloc
    /\ Cardinality(Extrusions(call)) = 2
    /\ Len(m_previous_layer.pts) = 2

\* line i is a command the measuring pass adds to total_layer_length
IsMeasured(c, i) == extruding(LineAt(c, i), ReaderAt(c, i))

\* C12: the rewriter counts the commands the measuring pass counted, so at
\* every extruding horizontal command len is at most total_layer_length and
\* factor is in [0,1], and at the last one len = total_layer_length and
\* factor = 1
C12_PassesCountTheSameCommands ==
    (ActiveCall /\ Extrusions(call) # {}) =>
      /\ \A i \in 1..Len(trace) : IsMeasured(call, i) <=> IsExtrusion(call, i)
      /\ \A i \in Extrusions(call) :
           /\ trace[i].len = CumLen(call, i)
           /\ CumLen(call, i) <= total_layer_length
           /\ trace[i].factor >= 0 /\ trace[i].factor <= Scale
      /\ CumLen(call, LastExtrusion(call)) = total_layer_length
      /\ trace[LastExtrusion(call)].factor = Scale

\* the lines of the text the measuring pass takes as Z moves (line 107)
ZMoves(c) ==
    {i \in 1..Len(c.trace) :
       /\ cmd_is(LineAt(c, i), "G1") /\ has(LineAt(c, i), "Z")
       /\ ~IsMeasured(c, i)}

RECURSIVE HeightUpTo(_, _)
\* the vertical displacements of the Z moves among lines 1..i
HeightUpTo(c, i) ==
    IF i = 0 THEN 0
    ELSE IF i \in ZMoves(c)
         THEN FAdd(HeightUpTo(c, i - 1), dist_Z(LineAt(c, i), ReaderAt(c, i)))
         ELSE HeightUpTo(c, i - 1)

FirstZMove(c) == CHOOSE i \in ZMoves(c) : \A j \in ZMoves(c) : i <= j

\* what the measuring pass leaves in z and layer_height for a layer with at
\* least one Z move
MeasuredZ(c) ==
    /\ c.layer_height = HeightUpTo(c, Len(c.trace))
    /\ c.z = FSub(LineAt(c, FirstZMove(c)).z, c.layer_height)

\* C13: start_z is the Z of the first Z move minus the vertical displacements
\* of all Z moves of the layer, and it is the Z the reader had when the call
\* began, with one Z move in the layer or with more
C13_StartZIsEntryZ ==
    [][(call = NoCall /\ call' # NoCall /\ m_enabled /\ ZMoves(call') # {})
         => /\ MeasuredZ(call')
            /\ call'.z = m_reader.z]_vars

\* the layer starts with its only Z move, a G1 with nothing but Z, and has
\* an extruding horizontal move
SingleZMoveLayer(c) ==
    /\ Len(c.trace) >= 2
    /\ cmd_is(LineAt(c, 1), "G1") /\ LineAt(c, 1).has = {"Z"}
    /\ \A i \in 2..Len(c.trace) : ~has(LineAt(c, i), "Z")
    /\ Extrusions(c) # {}

\* the lines of the text written with a Z word
WithZ(c) == {i \in 1..Len(c.trace) : ~IsTravel(c, i) /\ has(OutLine(c, i), "Z")}

\* C14: the Z ramp is continuous from layer to layer and monotonic within a
\* layer.  The Z of the last command of a layer is carried to the next call
\* by the reader, whose Z no step between two calls changes: an active call
\* on a layer of one Z move writes into that move the Z the reader had
\* (the end of the layer before), assigns to its last extruding horizontal
\* command the Z the reader has after the call (the start of the layer
\* after), and writes Z values that never decrease in emission order
C14_ZContinuousAcrossLayers ==
    [][(call = NoCall /\ call' # NoCall /\ m_enabled /\ SingleZMoveLayer(call'))
         => /\ OutLine(call', 1).z = m_reader.z
            /\ OutLine(call', LastExtrusion(call')).z = m_reader'.z
            /\ \A i, j \in WithZ(call') :
                 i <= j => OutLine(call', i).z <= OutLine(call', j).z]_vars

\* the step is an active process_layer call
ActiveStep == call = NoCall /\ call' # NoCall /\ m_enabled

\* C15: no set is retained at construction; an active call reads the set
\* retained before it and at its end replaces it by the set it built from
\* its own layer alone; no other step (enable, a disabled call, the return)
\* changes the retained set
C15_RetainedSetOnlyReplaced ==
    /\ m_previous_layer = NULL
    /\ [][/\ ActiveStep
               => /\ call'.previous_layer = m_previous_layer
                  /\ m_previous_layer' = Vector(call'.current_layer)
                  /\ call'.current_layer
                       = IF m_smooth_spiral THEN ExtrusionPoints(call') ELSE <<>>
          /\ ~ActiveStep => m_previous_layer' = m_previous_layer]_vars

\* a larger set replaced by a smaller one with none of its points
C15_Witness ==
    /\ ActiveCall
    /\ previous_layer.alloc /\ Len(previous_layer.pts) = 2
    /\ Len(m_previous_layer.pts) = 1
    /\ \A k \in 1..Len(previous_layer.pts) :
         previous_layer.pts[k] # m_previous_layer.pts[1]

\* a disabled call after the set was retained
C15_WitnessDisabled ==
    /\ Called /\ ~active
    /\ m_previous_layer.alloc /\ Len(m_previous_layer.pts) = 1

\* the XY written for line i
OutXY(c, i) == SpiralPoint(OutLine(c, i).x, OutLine(c, i).y)

\* C16: the last point from which a smoothed command measures its new
\* length is the XY written for the extruding horizontal command before it.
\* Within a layer that is the command before it; from one layer to the next
\* the point is carried by the retained set, which no step between two
\* active calls changes: the first extruding command of a call starts from
\* the last retained point, so the last point a call retains has to be the
\* XY it wrote for its last extruding horizontal command
C16_LastPointIsLastEmitted ==
    [][ActiveStep =>
         /\ \A i \in Extrusions(call') :
              TriggeredAt(call', i) =>
                call'.trace[i].last_point
                  = IF i = FirstExtrusion(call')
                    THEN InitialLastPoint(m_previous_layer)
                    ELSE TrackedAt(call', i)
         /\ (m_smooth_spiral /\ Extrusions(call') # {})
              => InitialLastPoint(m_previous_layer')
                   = OutXY(call', LastExtrusion(call'))]_vars

\* the line of the side buffer that answers line k of the main output: the
\* same command and words but for Z, and the same values but for Z and E
Counterpart(main, side) ==
    /\ side.cmd = main.cmd
    /\ side.has \ {"Z"} = main.has \ {"Z"}
    /\ side.x = main.x /\ side.y = main.y

\* C17 as stated: on a last layer the side buffer has, in the same order, a
\* counterpart of every command of the main output, the initial Z move
\* included, also when the call tapers the transition layer
C17_SideBufferIsCompleteLayer ==
    (ActiveCall /\ last_layer) =>
      /\ Len(transition_gcode) = Len(new_gcode)
      /\ \A k \in 1..Len(transition_gcode) :
           Counterpart(new_gcode[k], transition_gcode[k])

RECURSIVE SideUpTo(_, _)
\* what lines 1..i of the text leave in the side buffer of a last layer
SideUpTo(c, i) ==
    IF i = 0 THEN <<>>
    ELSE IF IsOther(c, i) THEN Append(SideUpTo(c, i - 1), LineAt(c, i))
    ELSE IF IsExtrusion(c, i) /\ ~c.transition
         THEN Append(SideUpTo(c, i - 1),
                     LineSet(LineAt(c, i), "E", FMul(LineAt(c, i).e, Remaining(c, i))))
    ELSE SideUpTo(c, i - 1)

\* C17 amended: on a last layer the side buffer holds, in the order of the
\* text, a copy of every command that is not a G1 or is a G1 without Z and
\* without horizontal displacement and, unless the call tapers the
\* transition layer, a clone with extrusion e * (1 - factor) of every
\* extruding horizontal command; a G1 with a Z word is never copied, and a
\* call that tapers clones no extruding command
C17_SideBufferContents ==
    (ActiveCall /\ last_layer) =>
      /\ transition_gcode = SideUpTo(call, Len(trace))
      /\ \A k \in 1..Len(transition_gcode) : ~has(transition_gcode[k], "Z")
      /\ transition => \A k \in 1..Len(transition_gcode) :
                         \E i \in 1..Len(gcode) : IsOther(call, i) /\ transition_gcode[k] = gcode[i]

C17_Witness ==
    /\ ActiveCall /\ last_layer /\ transition
    /\ Len(gcode) = 3
    /\ IsZMove(call, 1) /\ IsExtrusion(call, 2) /\ IsOther(call, 3)
    /\ Len(new_gcode) = 3
    /\ transition_gcode = <<gcode[3]>>

\* the same layer on a call that does not taper
C17_WitnessClone ==
    /\ ActiveCall /\ last_layer /\ ~transition
    /\ Len(gcode) = 3
    /\ IsZMove(call, 1) /\ IsExtrusion(call, 2) /\ IsOther(call, 3)
    /\ Len(transition_gcode) = 2
    /\ transition_gcode[2] = gcode[3]

\* the segments of a polyline, by the index of their first point
Segments(polygon) == 1..(Len(polygon) - 1)

\* c lies on the segment from a to b, to the rounding of the arithmetic:
\* inside its bounding box and at most two units off its line
OnSegment(c, a, b) ==
    /\ IsFinite(c.x) /\ IsFinite(c.y)
    /\ c.x >= (IF a.x < b.x THEN a.x ELSE b.x) - 1
    /\ c.x <= (IF a.x < b.x THEN b.x ELSE a.x) + 1
    /\ c.y >= (IF a.y < b.y THEN a.y ELSE b.y) - 1
    /\ c.y <= (IF a.y < b.y THEN b.y ELSE a.y) + 1
    /\ Abs((b.x - a.x) * (c.y - a.y) - (b.y - a.y) * (c.x - a.x))
         <= 2 * (Abs(b.x - a.x) + Abs(b.y - a.y)) + 2

\* the middle of the segment from a to b
Middle(a, b) == SpiralPoint((a.x + b.x) \div 2, (a.y + b.y) \div 2)

\* r is a point of the polyline with its distance to p, and no end or
\* middle of a segment is nearer to p
NearestOnPolyline(p, polygon, r) ==
    /\ r.found
    /\ \E i \in Segments(polygon) : OnSegment(r.closest, polygon[i], polygon[i + 1])
    /\ r.dist = distance(p, r.closest)
    /\ \A i \in Segments(polygon) :
         /\ r.dist <= distance(p, polygon[i]) + 2
         /\ r.dist <= distance(p, polygon[i + 1]) + 2
         /\ r.dist <= distance(p, Middle(polygon[i], polygon[i + 1])) + 2

\* C18: for a set of at least two points nearest_point_on_polygon finds a
\* point on one of the segments joining consecutive points, at the smallest
\* distance over all segments, also when two consecutive points coincide;
\* for fewer than two points it finds nothing.  Stated for the search of an
\* active call with smoothing: query p, the set retained before the call
C18_SearchFindsNearestOnPolyline ==
    (ActiveCall /\ m_smooth_spiral /\ previous_layer.alloc) =>
      \A i \in Extrusions(call) :
        LET p == SpiralPoint(LineAt(call, i).x, LineAt(call, i).y)
            r == nearest_point_on_polygon(p, previous_layer.pts)
        IN  /\ trace[i].searched
            /\ trace[i].nearestp = r.closest /\ trace[i].dist = r.dist
            /\ Len(previous_layer.pts) < 2 => ~r.found
            /\ Len(previous_layer.pts) >= 2
                 => NearestOnPolyline(p, previous_layer.pts, r)

====
